---------------------------- MODULE Spec2Model ----------------------------
(***************************************************************************)
(* Model of the Android-to-Markdown generator:                             *)
(*   core/markdown_generator.py  pattern loader, exclusion matcher, tree   *)
(*                               walker, content aggregator, assembler     *)
(*   gui/app.py                  the generate request and its error        *)
(*                               boundary                                  *)
(*                                                                         *)
(* Strings are sequences of one-character strings, so that join, split,    *)
(* strip, startswith, endswith and fnmatch are computed character by       *)
(* character as the Python code computes them.  A path is the sequence of  *)
(* its segments below the scanned directory; <<>> is the directory itself. *)
(***************************************************************************)
EXTENDS Integers, Sequences, FiniteSets, TLC

(***************************************************************************)
(* Bounds of the model.                                                    *)
(***************************************************************************)
\* In how many things the scanned directory and the request depart from the
\* core tree: optional files, pattern lines of the .gitignore, files holding
\* bytes that are not valid UTF-8, double clicks in the checkbox tree.
MaxChoices == 2
\* calls of the generator in one behaviour
MaxRuns == 2

(***************************************************************************)
(* Characters.  Alphabet lists the characters of the model in code point   *)
(* order; Surrogate is the lone surrogate U+DCFF that os.listdir returns   *)
(* for a file name byte 0xFF, BadByte is a byte that is not valid UTF-8.   *)
(***************************************************************************)
Surrogate == "U+DCFF"
BadByte == "0xFF"
Alphabet ==
  <<" ", "#", "*", "-", ".", "/", "2", "?", "A", "D", "E", "F", "G", "H",
    "M", "R", "S", "T", "X", "_", "a", "b", "c", "d", "e", "f", "g", "h",
    "i", "k", "l", "m", "n", "o", "p", "r", "s", "t", "u", "v", "x", "y",
    Surrogate>>

Code(c) == CHOOSE i \in 1..Len(Alphabet) : Alphabet[i] = c

Slash == "/"

\* str < str of Python: lexicographic by code point
RECURSIVE StrLess(_, _)
StrLess(a, b) ==
  IF b = <<>> THEN FALSE
  ELSE IF a = <<>> THEN TRUE
  ELSE IF Head(a) = Head(b) THEN StrLess(Tail(a), Tail(b))
  ELSE Code(Head(a)) < Code(Head(b))

\* str.startswith / str.endswith
StartsWith(s, prefix) ==
  /\ Len(prefix) <= Len(s)
  /\ SubSeq(s, 1, Len(prefix)) = prefix

EndsWith(s, suffix) ==
  /\ Len(suffix) <= Len(s)
  /\ SubSeq(s, Len(s) - Len(suffix) + 1, Len(s)) = suffix

\* str.rstrip("/")
RECURSIVE RStripSlash(_)
RStripSlash(s) ==
  IF s # <<>> /\ s[Len(s)] = Slash THEN RStripSlash(SubSeq(s, 1, Len(s) - 1))
  ELSE s

\* str.strip() for the whitespace of the model, the space
RECURSIVE LStrip(_)
LStrip(s) == IF s # <<>> /\ Head(s) = " " THEN LStrip(Tail(s)) ELSE s

RECURSIVE RStrip(_)
RStrip(s) ==
  IF s # <<>> /\ s[Len(s)] = " " THEN RStrip(SubSeq(s, 1, Len(s) - 1))
  ELSE s

Strip(s) == LStrip(RStrip(s))

\* "/".join(parts)
RECURSIVE JoinSlash(_)
JoinSlash(parts) ==
  IF parts = <<>> THEN <<>>
  ELSE IF Len(parts) = 1 THEN parts[1]
  ELSE parts[1] \o <<Slash>> \o JoinSlash(Tail(parts))

\* str.split("/")
RECURSIVE SplitFrom(_, _)
SplitFrom(s, cur) ==
  IF s = <<>> THEN <<cur>>
  ELSE IF Head(s) = Slash THEN <<cur>> \o SplitFrom(Tail(s), <<>>)
  ELSE SplitFrom(Tail(s), Append(cur, Head(s)))

SplitSlash(s) == SplitFrom(s, <<>>)

\* x in list
InSeq(x, seq) == \E i \in 1..Len(seq) : seq[i] = x

(***************************************************************************)
(* fnmatch.fnmatch(name, pat) on POSIX: "*" matches any run of characters, *)
(* the separator included, "?" matches one character, any other character  *)
(* matches itself.  No pattern of the model holds a "[".                   *)
(***************************************************************************)
RECURSIVE fnmatch(_, _)
fnmatch(name, pat) ==
  IF pat = <<>> THEN name = <<>>
  ELSE IF Head(pat) = "*"
    THEN \/ fnmatch(name, Tail(pat))
         \/ name # <<>> /\ fnmatch(Tail(name), pat)
  ELSE IF Head(pat) = "?"
    THEN name # <<>> /\ fnmatch(Tail(name), Tail(pat))
  ELSE name # <<>> /\ Head(name) = Head(pat) /\ fnmatch(Tail(name), Tail(pat))

(***************************************************************************)
(* Names of the entries of the model's trees.                              *)
(***************************************************************************)
App == <<"a", "p", "p">>
App2 == <<"a", "p", "p", "2">>
Sub == <<"s", "u", "b">>
Lib == <<"l", "i", "b">>
Out == <<"o", "u", "t">>
Build == <<"b", "u", "i", "l", "d">>
MainKt == <<"M", "a", "i", "n", ".", "k", "t">>
FKt == <<"F", ".", "k", "t">>
XKt == <<"X", ".", "k", "t">>
GKt == <<"G", ".", "k", "t">>
HKt == <<"H", ".", "k", "t">>
IgnoredKt == <<"i", "g", "n", "o", "r", "e", "d", ".", "k", "t">>
XLog == <<"x", ".", "l", "o", "g">>
DSStore == <<".", "D", "S", "_", "S", "t", "o", "r", "e">>
BuildGradleKts ==
  <<"b", "u", "i", "l", "d", ".", "g", "r", "a", "d", "l", "e", ".", "k", "t", "s">>
LibsVersionsToml ==
  <<"l", "i", "b", "s", ".", "v", "e", "r", "s", "i", "o", "n", "s", ".", "t", "o", "m", "l">>
ReadmeMd == <<"R", "E", "A", "D", "M", "E", ".", "m", "d">>
ReadmeTxt == <<"R", "E", "A", "D", "M", "E", ".", "t", "x", "t">>
GitignoreName == <<".", "g", "i", "t", "i", "g", "n", "o", "r", "e">>
OutMd == <<"o", "u", "t", ".", "m", "d">>
BadName == <<Surrogate>>
KtSuffix == <<".", "k", "t">>
GradleKtsSuffix == <<".", "g", "r", "a", "d", "l", "e", ".", "k", "t", "s">>

\* the absolute path of the scanned directory
RootDir == <<"/", "p">>

(***************************************************************************)
(* parse_gitignore: the standard exclusions.                               *)
(***************************************************************************)
standard_exclusions ==
  << <<".", "g", "i", "t", "/">>,
     <<".", "v", "e", "n", "v", "/">>,
     <<".", "i", "d", "e", "a", "/">>,
     <<".", "D", "S", "_", "S", "t", "o", "r", "e">>,
     <<"T", "h", "u", "m", "b", "s", ".", "d", "b">>,
     <<"n", "o", "d", "e", "_", "m", "o", "d", "u", "l", "e", "s", "/">>,
     <<"_", "_", "p", "y", "c", "a", "c", "h", "e", "_", "_">>,
     <<"b", "u", "i", "l", "d", "/">>,
     <<"d", "i", "s", "t", "/">>,
     <<".", "e", "n", "v", "/">>,
     <<".", "e", "g", "g", "s", "/">>,
     <<"*", ".", "e", "g", "g", "-", "i", "n", "f", "o", "/">>,
     <<"*", ".", "l", "o", "g">>,
     <<"g", "e", "n", "e", "r", "a", "t", "e", "d", "/">>,
     <<"o", "u", "t", "p", "u", "t", "s", "/">>,
     <<"a", "n", "d", "r", "o", "i", "d", "T", "e", "s", "t", "/">>,
     <<"t", "e", "s", "t", "/">> >>


(***************************************************************************)
(* The environment: the scanned directory, its files and the output files. *)
(***************************************************************************)
VARIABLES
  tree,                \* path -> "dir" | "file", the entries below RootDir
  gitignore,           \* the lines of <RootDir>/.gitignore
  corrupt,             \* the files holding a byte that is not valid UTF-8
  save_path,           \* where the user saves: "external" | "inside"
  outFile,             \* content of the files at the two output paths
  pc,                  \* position of the running call
  entry,               \* the entry point of the running call
  focus_subdir,        \* focus_subdir of the running call
  frontend,            \* who calls the generator: "gui" | "script"
  treeview,            \* the Treeview: item id -> ids of its children
  node_path_map,       \* item id -> path
  node_checked_map,    \* item id -> checked
  clicks,              \* double clicks on items so far
  documents,           \* what the latest calls in a row wrote, and for what
  user_excluded_paths, \* argument of generate_markdown_with_excludes
  exclude_patterns,    \* local of the running call
  markdown_content,    \* local of the running call
  exc,                 \* the exception the running call raised
  status,              \* what the GUI showed last
  runs                 \* requests issued so far

vars ==
  <<tree, gitignore, corrupt, save_path, outFile, pc, entry,
    focus_subdir, frontend, treeview, node_path_map, node_checked_map,
    clicks, documents, user_excluded_paths, exclude_patterns,
    markdown_content, exc, status, runs>>

\* entries that every tree of the model has
CoreTree ==
  ( <<>> :> "dir" ) @@
  ( <<App>> :> "dir" ) @@
  ( <<App, MainKt>> :> "file" ) @@
  ( <<App, Sub>> :> "dir" ) @@
  ( <<App, Sub, FKt>> :> "file" ) @@
  ( <<Build>> :> "dir" ) @@
  ( <<Build, IgnoredKt>> :> "file" ) @@
  ( <<Build, BuildGradleKts>> :> "file" ) @@
  ( <<Out>> :> "dir" ) @@
  ( <<Out, GKt>> :> "file" ) @@
  ( <<Out, Sub>> :> "dir" ) @@
  ( <<Out, Sub, HKt>> :> "file" ) @@
  ( <<Out, LibsVersionsToml>> :> "file" ) @@
  ( <<App, XLog>> :> "file" ) @@
  ( <<App, DSStore>> :> "file" ) @@
  ( <<App2>> :> "dir" ) @@
  ( <<App2, XKt>> :> "file" ) @@
  ( <<Lib>> :> "dir" ) @@
  ( <<Lib, Build>> :> "file" )

\* files a tree may have besides; their parents come with them
OptionalFiles == { <<ReadmeMd>>, <<ReadmeTxt>>, <<BadName>> }

Prefixes(p) == { SubSeq(p, 1, n) : n \in 0..(Len(p) - 1) }

TreeWith(extra) ==
  LET dirs == UNION { Prefixes(p) : p \in extra }
  IN  [p \in extra |-> "file"] @@ [p \in dirs |-> "dir"] @@ CoreTree

\* every .gitignore of the model starts with a comment and a blank line
GitignoreHeader == << <<"#", " ", "c">>, <<" ">> >>

\* the pattern lines that may follow: an anchored bare name with blanks
\* around it, a wildcard, a directory
GitignoreLines ==
  { <<" ", "/", "o", "u", "t", " ">>,
    <<"o", "*">>,
    <<"l", "i", "b", "/">> }

RECURSIVE SeqsUpTo(_, _)
SeqsUpTo(S, n) ==
  IF n = 0 THEN { <<>> }
  ELSE LET shorter == SeqsUpTo(S, n - 1)
       IN  shorter \cup { Append(s, x) : s \in shorter, x \in S }

\* the entries whose items the user may double-click
UserChoices == { <<App>>, <<App, Sub>>, <<Out>>, <<App, MainKt>> }

NoFile == <<[head |-> "absent", body |-> <<>>]>>
OldDoc == <<[head |-> "old", body |-> <<>>]>>
NoFocus == <<>>

IsDir(p) == p \in DOMAIN tree /\ tree[p] = "dir"
IsFile(p) == p \in DOMAIN tree /\ tree[p] = "file"
Name(p) == p[Len(p)]
Parent(p) == SubSeq(p, 1, Len(p) - 1)
IsBelow(p, d) == Len(p) > Len(d) /\ SubSeq(p, 1, Len(d)) = d

\* os.listdir(directory)
listdir(directory) ==
  { Name(p) : p \in { q \in DOMAIN tree : q # <<>> /\ Parent(q) = directory } }

\* sorted(names)
RECURSIVE sorted(_)
sorted(S) ==
  IF S = {} THEN <<>>
  ELSE LET least == CHOOSE x \in S : \A y \in S \ {x} : StrLess(x, y)
       IN  <<least>> \o sorted(S \ {least})

\* the order in which os.scandir yields the names to os.walk: it is the file
\* system's and the same on every scan; the model takes the sorted one
scandir(S) == sorted(S)

\* os.path.abspath of a path of the tree
abspath(p) ==
  IF p = <<>> THEN RootDir ELSE RootDir \o <<Slash>> \o JoinSlash(p)

\* os.path.relpath(path, root_dir).replace("\\", "/")
relpath(p) == IF p = <<>> THEN <<".">> ELSE JoinSlash(p)

\* the bytes of a file and their two decodings
Bytes(p) == IF p \in corrupt THEN <<"x", BadByte, "y">> ELSE <<"x", "y">>
Decodable(p) == ~ InSeq(BadByte, Bytes(p))
DecodeIgnore(bytes) == SelectSeq(bytes, LAMBDA b : b # BadByte)

(***************************************************************************)
(* parse_gitignore                                                         *)
(***************************************************************************)
RECURSIVE ParseLines(_)
ParseLines(lines) ==
  IF lines = <<>> THEN <<>>
  ELSE LET line == Strip(Head(lines))
           rest == ParseLines(Tail(lines))
       IN  IF line # <<>> /\ ~ StartsWith(line, <<"#">>)
           THEN IF StartsWith(line, <<Slash>>)
                THEN <<Tail(line)>> \o rest
                ELSE <<line>> \o rest
           ELSE rest

parse_gitignore ==
  IF IsFile(<<GitignoreName>>)
  THEN standard_exclusions \o ParseLines(gitignore)
  ELSE standard_exclusions

(***************************************************************************)
(* should_exclude                                                          *)
(***************************************************************************)
\* variant: a file pattern is matched against the last segment only
PatternMatches_basename(pattern, relative_path, path_parts) ==
  IF EndsWith(pattern, <<Slash>>)
  THEN InSeq(RStripSlash(pattern), path_parts)
  ELSE fnmatch(path_parts[Len(path_parts)], pattern)

PatternMatches(pattern, relative_path, path_parts) ==
  IF EndsWith(pattern, <<Slash>>)
  THEN InSeq(RStripSlash(pattern), path_parts)
  ELSE fnmatch(relative_path, pattern)

RECURSIVE MatchLoop(_, _, _)

\* variant: the loop returns what the first pattern says
MatchLoop_firstOnly(patterns, relative_path, path_parts) ==
  IF patterns = <<>> THEN FALSE
  ELSE PatternMatches(Head(patterns), relative_path, path_parts)

MatchLoop(patterns, relative_path, path_parts) ==
  IF patterns = <<>> THEN FALSE
  ELSE IF PatternMatches(Head(patterns), relative_path, path_parts) THEN TRUE
  ELSE MatchLoop(Tail(patterns), relative_path, path_parts)

should_exclude(path, patterns) ==
  LET relative_path == relpath(path)
      path_parts == SplitSlash(relative_path)
  IN  MatchLoop(patterns, relative_path, path_parts)

\* generate_markdown_with_excludes, step 2: one user path to one pattern
UserPattern(abs_path) ==
  LET rel_path == relpath(abs_path)
  IN  IF IsDir(abs_path) THEN RStripSlash(rel_path) \o <<Slash>> ELSE rel_path

RECURSIVE UserPatterns(_)
UserPatterns(paths) ==
  IF paths = <<>> THEN <<>>
  ELSE <<UserPattern(Head(paths))>> \o UserPatterns(Tail(paths))

(***************************************************************************)
(* generate_file_structure.  A line of the listing is its indent, the item *)
(* and whether it got the trailing "/"; path names the entry the line was  *)
(* written for and is not part of the text.                                *)
(***************************************************************************)
Line(indent, item, is_dir, item_path) ==
  [indent |-> indent, item |-> item, is_dir |-> is_dir, path |-> item_path]

RECURSIVE generate_file_structure(_, _, _, _)
RECURSIVE ListItems(_, _, _, _, _, _, _)

\* variant: the focus root is recognised by startswith instead of ==
ListItems_prefixFocus(directory, items, indent, patterns, focus, inFocus, abs_focus) ==
  IF items = <<>> THEN <<>>
  ELSE
    LET item == Head(items)
        item_path == Append(directory, item)
        abs_item_path == abspath(item_path)
        rest == ListItems(directory, Tail(items), indent, patterns, focus,
                          inFocus, abs_focus)
        below == generate_file_structure(item_path, indent \o <<" ", " ">>,
                                         patterns, focus)
    IN  IF should_exclude(item_path, patterns) THEN rest
        ELSE IF IsDir(item_path)
          THEN IF /\ ~ inFocus
                  /\ focus # NoFocus
                  /\ StartsWith(abs_item_path, abs_focus)
                 THEN <<Line(indent, item, TRUE, item_path)>> \o below \o rest
               ELSE IF inFocus
                 THEN <<Line(indent, item, TRUE, item_path)>> \o below \o rest
               ELSE <<Line(indent, item, TRUE, item_path)>> \o rest
        ELSE <<Line(indent, item, FALSE, item_path)>> \o rest

ListItems(directory, items, indent, patterns, focus, inFocus, abs_focus) ==
  IF items = <<>> THEN <<>>
  ELSE
    LET item == Head(items)
        item_path == Append(directory, item)
        abs_item_path == abspath(item_path)
        rest == ListItems(directory, Tail(items), indent, patterns, focus,
                          inFocus, abs_focus)
        below == generate_file_structure(item_path, indent \o <<" ", " ">>,
                                         patterns, focus)
    IN  IF should_exclude(item_path, patterns) THEN rest
        ELSE IF IsDir(item_path)
          THEN IF ~ inFocus /\ focus # NoFocus /\ abs_item_path = abs_focus
                 THEN <<Line(indent, item, TRUE, item_path)>> \o below \o rest
               ELSE IF inFocus
                 THEN <<Line(indent, item, TRUE, item_path)>> \o below \o rest
               ELSE <<Line(indent, item, TRUE, item_path)>> \o rest
        ELSE <<Line(indent, item, FALSE, item_path)>> \o rest

generate_file_structure(directory, indent, patterns, focus) ==
  LET abs_focus == IF focus # NoFocus
                   THEN RootDir \o <<Slash>> \o focus
                   ELSE <<>>
      abs_directory == abspath(directory)
      inFocus == focus # NoFocus /\ StartsWith(abs_directory, abs_focus)
  IN  ListItems(directory, sorted(listdir(directory)), indent, patterns,
                focus, inFocus, abs_focus)

(***************************************************************************)
(* os.walk(directory), top down: one (root, files) per directory.          *)
(***************************************************************************)
RECURSIVE walk(_)
RECURSIVE WalkEach(_, _)

WalkEach(top, dirs) ==
  IF dirs = <<>> THEN <<>>
  ELSE walk(Append(top, Head(dirs))) \o WalkEach(top, Tail(dirs))

walk(top) ==
  LET names == scandir(listdir(top))
      dirs == SelectSeq(names, LAMBDA n : IsDir(Append(top, n)))
      files == SelectSeq(names, LAMBDA n : ~ IsDir(Append(top, n)))
  IN  <<[root |-> top, files |-> files]>> \o WalkEach(top, dirs)

(***************************************************************************)
(* include_readme: the text of the first README, read strictly.            *)
(***************************************************************************)
ReadmeFile ==
  IF IsFile(<<ReadmeMd>>) THEN <<ReadmeMd>>
  ELSE IF IsFile(<<ReadmeTxt>>) THEN <<ReadmeTxt>>
  ELSE <<>>

include_readme ==
  IF ReadmeFile = <<>> THEN <<>> ELSE <<[text |-> Bytes(ReadmeFile)]>>

(***************************************************************************)
(* include_kotlin_files                                                    *)
(***************************************************************************)
RECURSIVE KotlinFiles(_, _, _)
KotlinFiles(root, files, patterns) ==
  IF files = <<>> THEN <<>>
  ELSE
    LET file == Head(files)
        file_path == Append(root, file)
        rest == KotlinFiles(root, Tail(files), patterns)
    IN  IF EndsWith(file, KtSuffix) /\ ~ should_exclude(file_path, patterns)
        THEN <<[relative_path |-> JoinSlash(file_path),
                content |-> DecodeIgnore(Bytes(file_path))]>> \o rest
        ELSE rest

RECURSIVE KotlinRoots(_, _)
KotlinRoots(visits, patterns) ==
  IF visits = <<>> THEN <<>>
  ELSE
    LET visit == Head(visits)
        rest == KotlinRoots(Tail(visits), patterns)
    IN  IF should_exclude(visit.root, patterns) THEN rest
        ELSE KotlinFiles(visit.root, visit.files, patterns) \o rest

include_kotlin_files(patterns) == KotlinRoots(walk(<<>>), patterns)

(***************************************************************************)
(* include_gradle_and_toml_files                                           *)
(***************************************************************************)
RECURSIVE ConfigFiles(_, _)
ConfigFiles(root, files) ==
  IF files = <<>> THEN <<>>
  ELSE
    LET file == Head(files)
        file_path == Append(root, file)
        rest == ConfigFiles(root, Tail(files))
        block(kind) == [kind |-> kind,
                        relative_path |-> JoinSlash(file_path),
                        content |-> DecodeIgnore(Bytes(file_path))]
    IN  IF EndsWith(file, GradleKtsSuffix) \/ file = LibsVersionsToml
        THEN IF EndsWith(file, GradleKtsSuffix)
             THEN <<block("Gradle Script")>> \o rest
             ELSE <<block("Version Catalog")>> \o rest
        ELSE rest

RECURSIVE ConfigRoots(_)

\* variant: the walk skips the directories the matcher excludes
ConfigRoots_excluding(visits) ==
  IF visits = <<>> THEN <<>>
  ELSE IF should_exclude(Head(visits).root, exclude_patterns)
    THEN ConfigRoots(Tail(visits))
  ELSE ConfigFiles(Head(visits).root, Head(visits).files)
         \o ConfigRoots(Tail(visits))

ConfigRoots(visits) ==
  IF visits = <<>> THEN <<>>
  ELSE ConfigFiles(Head(visits).root, Head(visits).files)
         \o ConfigRoots(Tail(visits))

include_gradle_and_toml_files == ConfigRoots(walk(<<>>))

(***************************************************************************)
(* The document and the output files.  A document is the sequence of its   *)
(* sections, a file holds the sections written to it.                      *)
(***************************************************************************)
Section(head, body) == [head |-> head, body |-> body]

Title ==
  IF entry = "generate_markdown_with_excludes"
  THEN Section("# Project Overview", <<>>)
  ELSE Section("# Android Project Overview", <<>>)

StructureHead == "## File Structure"
ReadmeHead == "## Project Documentation"
KotlinHead == "## Extracted Kotlin Files"
ConfigHead == "## Configuration Files"

\* the file the running call writes
Target ==
  IF entry = "generate_markdown_with_excludes" THEN "save" ELSE "results"

HasSurrogate(str) == InSeq(Surrogate, str)

\* str.encode("utf-8") of the document succeeds
Encodable(doc) ==
  \A i \in 1..Len(doc) : \A j \in 1..Len(doc[i].body) :
    IF doc[i].head = StructureHead THEN ~ HasSurrogate(doc[i].body[j].item)
    ELSE IF doc[i].head \in {KotlinHead, ConfigHead}
      THEN ~ HasSurrogate(doc[i].body[j].relative_path)
    ELSE TRUE

\* files whose bytes the model may corrupt
CorruptChoices ==
  { <<GitignoreName>>, <<ReadmeMd>>, <<App, MainKt>>, <<Build, BuildGradleKts>> }

Distinct(s) == \A i, j \in 1..Len(s) : i # j => s[i] # s[j]

(***************************************************************************)
(* The checkbox tree of the GUI.  The id of an item is its rank among the  *)
(* items that the last populate_treeview inserted; NoItem is "", the       *)
(* parent of the root item.  Both dicts keep their keys in this order.     *)
(***************************************************************************)
NoItem == 0

\* the path of an entry relative to root_dir, a directory above it
relative_to(path, root_dir) == SubSeq(path, Len(root_dir) + 1, Len(path))

\* _add_children: the items it inserts, in the order of insertion; the
\* matcher is given the directory being listed as root_dir
RECURSIVE add_children(_, _)
RECURSIVE AddItems(_, _, _)

AddItems(directory, items, patterns) ==
  IF items = <<>> THEN <<>>
  ELSE
    LET item == Head(items)
        item_path == Append(directory, item)
        rest == AddItems(directory, Tail(items), patterns)
        node == [path |-> item_path, parent |-> directory]
    IN  IF should_exclude(relative_to(item_path, directory), patterns)
          THEN rest
        ELSE IF IsDir(item_path)
          THEN <<node>> \o add_children(item_path, patterns) \o rest
        ELSE <<node>> \o rest

add_children(directory, patterns) ==
  AddItems(directory, sorted(listdir(directory)), patterns)

\* populate_treeview: the root item and the items below it
Inserted ==
  <<[path |-> <<>>, parent |-> <<>>]>> \o add_children(<<>>, parse_gitignore)

ParentItem(nodes, i) ==
  IF i = 1 THEN NoItem
  ELSE CHOOSE j \in 1..Len(nodes) : nodes[j].path = nodes[i].parent

\* Treeview.get_children of every item once the first k items are inserted
TreeviewOf(nodes, k) ==
  LET parent == [j \in 1..k |-> ParentItem(nodes, j)]
  IN  [id \in 0..k |->
         SelectSeq([j \in 1..k |-> j], LAMBDA j : parent[j] = id)]

\* the widget and the dicts after populate_treeview has inserted the first
\* k of the items nodes
populate_treeview(nodes, k) ==
  [treeview |-> TreeviewOf(nodes, k),
   node_path_map |-> [i \in 1..k |-> nodes[i].path],
   node_checked_map |-> [i \in 1..k |-> TRUE]]

\* the items at whose insertion populate_treeview may stop: the last one,
\* or a folder whose os.listdir fails
StopItems(nodes) ==
  { Len(nodes) } \cup { k \in 1..Len(nodes) : IsDir(nodes[k].path) }

\* set_node_state on the dict checked
RECURSIVE set_node_state(_, _, _)
RECURSIVE SetEach(_, _, _)

SetEach(checked, children, new_state) ==
  IF children = <<>> THEN checked
  ELSE SetEach(set_node_state(checked, Head(children), new_state),
               Tail(children), new_state)

\* variant: the state of the clicked item alone is set
set_node_state_itemOnly(checked, item_id, new_state) ==
  (item_id :> new_state) @@ checked

set_node_state(checked, item_id, new_state) ==
  SetEach((item_id :> new_state) @@ checked, treeview[item_id], new_state)

\* on_item_double_click on an item of the tree region
on_item_double_click(checked, item_id) ==
  set_node_state(checked, item_id, ~ checked[item_id])

\* the item of the tree that shows the entry at path
ItemAt(path) == CHOOSE i \in DOMAIN node_path_map : node_path_map[i] = path
HasItem(path) == \E i \in DOMAIN node_path_map : node_path_map[i] = path

RECURSIVE ClickEach(_, _)
ClickEach(checked, paths) ==
  IF paths = <<>> THEN checked
  ELSE ClickEach(on_item_double_click(checked, ItemAt(Head(paths))),
                 Tail(paths))

\* the keys of node_checked_map in the order of the dict
CheckedKeys ==
  [i \in 1..Cardinality(DOMAIN node_checked_map) |-> i]

\* get_unchecked_paths
get_unchecked_paths ==
  LET ids == SelectSeq(CheckedKeys, LAMBDA i : ~ node_checked_map[i])
  IN  [n \in 1..Len(ids) |-> node_path_map[ids[n]]]

\* the files and pattern lines by which the scanned directory departs from
\* the core tree
Departures ==
  Cardinality(OptionalFiles \cap DOMAIN tree)
    + (IF gitignore = <<>> THEN 0 ELSE Len(gitignore) - Len(GitignoreHeader))
    + Cardinality(corrupt)

\* the scanned directory before the first call
InitDirectory(extra, hasGitignore, lines, bad) ==
  /\ lines # <<>> => hasGitignore
  /\ tree = TreeWith(extra)
            @@ (IF hasGitignore THEN <<GitignoreName>> :> "file" ELSE <<>>)
  /\ bad \subseteq DOMAIN tree
  /\ gitignore = IF hasGitignore THEN GitignoreHeader \o lines ELSE <<>>
  /\ corrupt = bad

\* no call has been made
InitCall ==
  /\ pc = "idle"
  /\ entry = "none"
  /\ focus_subdir = NoFocus
  /\ user_excluded_paths = <<>>
  /\ exclude_patterns = <<>>
  /\ markdown_content = <<>>
  /\ exc = "none"
  /\ status = "none"
  /\ runs = 0
  /\ documents = <<>>

\* MarkdownGeneratorApp.__init__: both dicts and the Treeview are empty
InitWidgets ==
  /\ treeview = (NoItem :> <<>>)
  /\ node_path_map = <<>>
  /\ node_checked_map = <<>>

\* parse_gitignore raises on the .gitignore of the directory
GitignoreUndecodable ==
  IsFile(<<GitignoreName>>) /\ ~ Decodable(<<GitignoreName>>)

\* The generator is called by a script, or by the GUI whose user has browsed
\* to the directory and double-clicked the items of the entries un, one
\* after the other.
Init ==
  /\ frontend \in {"gui", "script"}
  /\ \E extra \in SUBSET OptionalFiles :
     \E hasGitignore \in BOOLEAN :
     \E lines \in SeqsUpTo(GitignoreLines, MaxChoices) :
     \E bad \in SUBSET CorruptChoices :
     \E un \in SeqsUpTo(UserChoices, MaxChoices) :
       /\ Cardinality(extra) + Len(lines) + Cardinality(bad) + Len(un)
            <= MaxChoices
       /\ Distinct(un)
       /\ frontend = "script" => un = <<>>
       /\ InitDirectory(extra, hasGitignore, lines, bad)
       /\ clicks = Len(un)
       /\ IF frontend = "gui" /\ ~ GitignoreUndecodable
          THEN \E nodes \in {Inserted} :
               \E shown \in {populate_treeview(nodes, Len(nodes))} :
                 /\ treeview = shown.treeview
                 /\ node_path_map = shown.node_path_map
                 /\ \A i \in 1..Len(un) : HasItem(un[i])
                 /\ node_checked_map = ClickEach(shown.node_checked_map, un)
          ELSE /\ un = <<>>
               /\ InitWidgets
  \* the user saves over an older document outside the scanned directory,
  \* or to a new file in it; a script has no save path
  /\ save_path \in IF frontend = "gui"
                   THEN {"external", "inside"} ELSE {"external"}
  /\ outFile = [save |-> IF frontend = "gui" /\ save_path = "external"
                         THEN OldDoc ELSE NoFile,
                results |-> NoFile]
  /\ InitCall

env ==
  <<gitignore, corrupt, save_path, frontend, treeview, node_path_map,
    node_checked_map, clicks>>

\* an exception leaves the call: its locals are gone, and the calls that
\* wrote a document are no longer in a row
Raise(e) ==
  /\ pc' = "raised"
  /\ exc' = e
  /\ exclude_patterns' = <<>>
  /\ markdown_content' = <<>>
  /\ documents' = <<>>

(***************************************************************************)
(* MarkdownGeneratorApp.generate_markdown up to the call of the generator  *)
(***************************************************************************)
GuiGenerate ==
  /\ pc = "idle"
  /\ frontend = "gui"
  /\ runs < MaxRuns
  /\ IsDir(<<>>)
  /\ runs' = runs + 1
  /\ entry' = "generate_markdown_with_excludes"
  /\ user_excluded_paths' = get_unchecked_paths
  /\ focus_subdir' = App
  /\ pc' = "parse"
  /\ exc' = "none"
  /\ UNCHANGED <<tree, env, outFile, exclude_patterns, markdown_content,
                 status, documents>>

\* a script calls generate_markdown(directory, focus_subdir = focus)
CallGenerateMarkdown(focus) ==
  /\ pc = "idle"
  /\ frontend = "script"
  /\ runs < MaxRuns
  /\ runs' = runs + 1
  /\ entry' = "generate_markdown"
  /\ user_excluded_paths' = <<>>
  /\ focus_subdir' = focus
  /\ pc' = "parse"
  /\ exc' = "none"
  /\ UNCHANGED <<tree, env, outFile, exclude_patterns, markdown_content,
                 status, documents>>

(***************************************************************************)
(* The steps of generate_markdown_with_excludes and generate_markdown.     *)
(***************************************************************************)
\* parse_gitignore(directory); the file is opened with strict decoding
ParseGitignore ==
  /\ pc = "parse"
  /\ IF IsFile(<<GitignoreName>>) /\ ~ Decodable(<<GitignoreName>>)
     THEN Raise("UnicodeDecodeError")
     ELSE /\ exclude_patterns' = parse_gitignore
          /\ pc' = IF entry = "generate_markdown_with_excludes"
                   THEN "user_patterns" ELSE "structure"
          /\ UNCHANGED <<markdown_content, exc, documents>>
  /\ UNCHANGED <<tree, env, outFile, entry, focus_subdir,
                 user_excluded_paths, status, runs>>

\* the loop over user_excluded_paths
AddUserPatterns ==
  /\ pc = "user_patterns"
  /\ exclude_patterns' = exclude_patterns \o UserPatterns(user_excluded_paths)
  /\ pc' = "structure"
  /\ UNCHANGED <<tree, env, outFile, entry, focus_subdir,
                 user_excluded_paths, markdown_content, exc, status, runs,
                 documents>>

FileStructure ==
  /\ pc = "structure"
  /\ markdown_content' =
       <<Title,
         Section(StructureHead,
                 generate_file_structure(<<>>, <<>>, exclude_patterns,
                                         focus_subdir))>>
  /\ pc' = "readme"
  /\ UNCHANGED <<tree, env, outFile, entry, focus_subdir,
                 user_excluded_paths, exclude_patterns, exc, status, runs,
                 documents>>

\* include_readme(directory); the file is opened with strict decoding
Readme ==
  /\ pc = "readme"
  /\ IF ReadmeFile # <<>> /\ ~ Decodable(ReadmeFile)
     THEN Raise("UnicodeDecodeError")
     ELSE /\ markdown_content' =
               Append(markdown_content, Section(ReadmeHead, include_readme))
          /\ pc' = "kotlin"
          /\ UNCHANGED <<exclude_patterns, exc, documents>>
  /\ UNCHANGED <<tree, env, outFile, entry, focus_subdir,
                 user_excluded_paths, status, runs>>

KotlinFilesStep ==
  /\ pc = "kotlin"
  /\ markdown_content' =
       Append(markdown_content,
              Section(KotlinHead, include_kotlin_files(exclude_patterns)))
  /\ pc' = "config"
  /\ UNCHANGED <<tree, env, outFile, entry, focus_subdir,
                 user_excluded_paths, exclude_patterns, exc, status, runs,
                 documents>>

ConfigFilesStep ==
  /\ pc = "config"
  /\ markdown_content' =
       Append(markdown_content,
              Section(ConfigHead, include_gradle_and_toml_files))
  /\ pc' = "open"
  /\ UNCHANGED <<tree, env, outFile, entry, focus_subdir,
                 user_excluded_paths, exclude_patterns, exc, status, runs,
                 documents>>

\* os.makedirs(..., exist_ok=True); open(output_file_path, "w"): the file
\* exists and is empty from here on
OpenOutput ==
  /\ pc = "open"
  /\ outFile' = [outFile EXCEPT ![Target] = <<>>]
  /\ tree' = IF Target = "save" /\ save_path = "inside"
             THEN (<<OutMd>> :> "file") @@ tree
             ELSE tree
  /\ pc' = "write"
  /\ UNCHANGED <<env, entry, focus_subdir, user_excluded_paths,
                 exclude_patterns, markdown_content, exc, status, runs,
                 documents>>

\* what the call writes, and the exclusion list it was called with
Written ==
  [user_excluded_paths |-> user_excluded_paths, content |-> markdown_content]

LastTwo(seq) == IF Len(seq) <= 2 THEN seq ELSE Tail(seq)

\* f.write(markdown_content) and the close of the file
WriteOutput ==
  /\ pc = "write"
  /\ IF Encodable(markdown_content)
     THEN /\ outFile' = [outFile EXCEPT ![Target] = markdown_content]
          /\ pc' = "returned"
          /\ exclude_patterns' = <<>>
          /\ markdown_content' = <<>>
          /\ documents' = LastTwo(Append(documents, Written))
          /\ UNCHANGED exc
     ELSE /\ Raise("UnicodeEncodeError")
          /\ UNCHANGED outFile
  /\ UNCHANGED <<tree, env, entry, focus_subdir, user_excluded_paths,
                 status, runs>>

\* the filesystem refuses a listing, a read, the makedirs or the open
FilesystemError ==
  /\ pc \in {"parse", "structure", "readme", "kotlin", "config", "open"}
  /\ Raise("OSError")
  /\ UNCHANGED <<tree, env, outFile, entry, focus_subdir,
                 user_excluded_paths, status, runs>>

(***************************************************************************)
(* Back in the caller.                                                     *)
(***************************************************************************)
\* generate_markdown of the GUI after the call: the status label
GuiReturn ==
  /\ pc = "returned"
  /\ frontend = "gui"
  /\ status' = "generated"
  /\ pc' = "idle"
  /\ user_excluded_paths' = <<>>
  /\ UNCHANGED <<tree, env, outFile, entry, focus_subdir, exclude_patterns,
                 markdown_content, exc, runs, documents>>

\* except Exception as e: messagebox.showerror
GuiShowError ==
  /\ pc = "raised"
  /\ frontend = "gui"
  /\ status' = "error"
  /\ pc' = "idle"
  /\ user_excluded_paths' = <<>>
  /\ UNCHANGED <<tree, env, outFile, entry, focus_subdir, exclude_patterns,
                 markdown_content, exc, runs, documents>>

\* generate_markdown returns to, or raises into, the script that called it
ScriptReturn ==
  /\ pc \in {"returned", "raised"}
  /\ frontend = "script"
  /\ pc' = "idle"
  /\ UNCHANGED <<tree, env, outFile, entry, focus_subdir, exclude_patterns,
                 user_excluded_paths, markdown_content, exc, status, runs,
                 documents>>

Next ==
  \/ GuiGenerate
  \/ \E focus \in {NoFocus, App} : CallGenerateMarkdown(focus)
  \/ ParseGitignore
  \/ AddUserPatterns
  \/ FileStructure
  \/ Readme
  \/ KotlinFilesStep
  \/ ConfigFilesStep
  \/ OpenOutput
  \/ WriteOutput
  \/ FilesystemError
  \/ GuiReturn
  \/ GuiShowError
  \/ ScriptReturn

Spec == Init /\ [][Next]_vars

(***************************************************************************)
(* The checkbox tree on its own: the user browses and double-clicks, no    *)
(* call of the generator is made.                                          *)
(***************************************************************************)
call ==
  <<tree, gitignore, corrupt, save_path, frontend, outFile, pc, entry,
    focus_subdir, user_excluded_paths, exclude_patterns, markdown_content,
    exc, status, runs, documents>>

GuiInit ==
  /\ frontend = "gui"
  /\ \E extra \in SUBSET OptionalFiles :
     \E hasGitignore \in BOOLEAN :
     \E lines \in SeqsUpTo(GitignoreLines, MaxChoices) :
     \E bad \in SUBSET CorruptChoices :
       /\ Cardinality(extra) + Len(lines) + Cardinality(bad) <= MaxChoices
       /\ InitDirectory(extra, hasGitignore, lines, bad)
  /\ clicks = 0
  /\ InitWidgets
  /\ save_path = "external"
  /\ outFile = [save |-> OldDoc, results |-> NoFile]
  /\ InitCall

\* browse_directory with the directory chosen: populate_treeview clears the
\* tree and both dicts, parses the .gitignore and inserts the items, up to
\* the last one or up to a folder that os.listdir refuses
BrowseDirectory ==
  /\ pc = "idle"
  /\ frontend = "gui"
  /\ IF GitignoreUndecodable
     THEN /\ treeview' = (NoItem :> <<>>)
          /\ node_path_map' = <<>>
          /\ node_checked_map' = <<>>
     ELSE \E nodes \in {Inserted} :
          \E k \in StopItems(nodes) :
          \E shown \in {populate_treeview(nodes, k)} :
            /\ treeview' = shown.treeview
            /\ node_path_map' = shown.node_path_map
            /\ node_checked_map' = shown.node_checked_map
  /\ UNCHANGED <<call, clicks>>

\* on_item_double_click in the tree region on the row of item_id
OnItemDoubleClick(item_id) ==
  /\ pc = "idle"
  /\ frontend = "gui"
  /\ item_id \in DOMAIN treeview \ {NoItem}
  /\ Departures + clicks < MaxChoices
  /\ node_checked_map' = on_item_double_click(node_checked_map, item_id)
  /\ clicks' = clicks + 1
  /\ UNCHANGED <<call, treeview, node_path_map>>

\* the items the user may double-click
Clickable ==
  { item_id \in DOMAIN node_path_map : node_path_map[item_id] \in UserChoices }

GuiNext ==
  \/ BrowseDirectory
  \/ \E item_id \in Clickable : OnItemDoubleClick(item_id)

GuiSpec == GuiInit /\ [][GuiNext]_vars

(***************************************************************************)
(* What the properties speak of.                                           *)
(***************************************************************************)
\* the call has built the listing / the source section / all four sections
HasListing == Len(markdown_content) >= 2
HasKotlin == Len(markdown_content) >= 4
Assembled == Len(markdown_content) = 5

Listing == markdown_content[2].body
ListedPaths == { Listing[i].path : i \in 1..Len(Listing) }
LinesOf(p) == { i \in 1..Len(Listing) : Listing[i].path = p }
KotlinPaths ==
  { markdown_content[4].body[i].relative_path :
      i \in 1..Len(markdown_content[4].body) }
ConfigPaths ==
  { markdown_content[5].body[i].relative_path :
      i \in 1..Len(markdown_content[5].body) }

Entries == DOMAIN tree \ { <<>> }
Dirs == { p \in Entries : tree[p] = "dir" }
Files == { p \in Entries : tree[p] = "file" }

\* neither the entry nor a directory above it is excluded
NotExcluded(p) ==
  \A n \in 1..Len(p) : ~ should_exclude(SubSeq(p, 1, n), exclude_patterns)

IsConfigName(name) == EndsWith(name, GradleKtsSuffix) \/ name = LibsVersionsToml

\* the patterns the matcher is asked about: those of a call in progress
HasPatterns == pc \in {"user_patterns", "structure"}

BuildSlash == <<"b", "u", "i", "l", "d", "/">>
StarLog == <<"*", ".", "l", "o", "g">>

(***************************************************************************)
(* C1: no directory below the root that is in the user exclusion list, and *)
(* nothing below such a directory, appears in the listing, in the source   *)
(* section or in the configuration section, once the section is built.     *)
(***************************************************************************)
C1_UserExcludedDirAbsent ==
  entry = "generate_markdown_with_excludes" =>
    \A i \in 1..Len(user_excluded_paths) :
      LET D == user_excluded_paths[i]
      IN  (D \in Dirs) =>
            \A p \in Entries :
              (p = D \/ IsBelow(p, D)) =>
                /\ HasListing => p \notin ListedPaths
                /\ HasKotlin => JoinSlash(p) \notin KotlinPaths
                /\ Assembled => JoinSlash(p) \notin ConfigPaths

(***************************************************************************)
(* C2: with no focus subtree the listing holds every entry that is not     *)
(* excluded, at full depth, each level indented by two more spaces.        *)
(***************************************************************************)
C2_NoFocusFullDepth ==
  (HasListing /\ focus_subdir = NoFocus) =>
    \A p \in Entries :
      NotExcluded(p) =>
        \E i \in LinesOf(p) : Len(Listing[i].indent) = 2 * (Len(p) - 1)

(***************************************************************************)
(* C3: with a focus subtree and the listing started at the root, the       *)
(* children of a listed directory are listed, two spaces deeper, exactly   *)
(* when the directory is the focus root or lies inside the focus subtree;  *)
(* any other listed directory is one line and nothing below it is listed.  *)
(***************************************************************************)
InFocusTree(d) == d = <<focus_subdir>> \/ IsBelow(d, <<focus_subdir>>)

C3_FocusDescent ==
  (HasListing /\ focus_subdir # NoFocus) =>
    \A i \in 1..Len(Listing) :
      LET d == Listing[i].path
      IN  /\ Cardinality(LinesOf(d)) = 1
          /\ Listing[i].is_dir = IsDir(d)
          /\ Listing[i].is_dir /\ InFocusTree(d) =>
               \A c \in Entries :
                 (Parent(c) = d /\ ~ should_exclude(c, exclude_patterns)) =>
                   \E j \in LinesOf(c) :
                     /\ j > i
                     /\ Listing[j].indent = Listing[i].indent \o <<" ", " ">>
          /\ Listing[i].is_dir /\ ~ InFocusTree(d) =>
               \A c \in Entries : IsBelow(c, d) => c \notin ListedPaths

\* a sibling whose name starts with the focus name is listed next to the
\* expanded focus subtree, and has a child that is not excluded
C3_Witness ==
  /\ HasListing
  /\ focus_subdir = App
  /\ <<App2>> \in ListedPaths
  /\ <<App, Sub, FKt>> \in ListedPaths
  /\ <<App2, XKt>> \in Entries
  /\ NotExcluded(<<App2, XKt>>)

(***************************************************************************)
(* C4: with build/ among the patterns the matcher excludes every path that *)
(* has a directory named build among its segments, and does not exclude a  *)
(* regular file named build that no other pattern matches.                 *)
(***************************************************************************)
C4_BuildDirPattern ==
  (HasPatterns /\ InSeq(BuildSlash, exclude_patterns)) =>
    \A p \in Entries :
      /\ (\E n \in 1..Len(p) : p[n] = Build /\ IsDir(SubSeq(p, 1, n))) =>
           should_exclude(p, exclude_patterns)
      /\ ( /\ IsFile(p)
           /\ Name(p) = Build
           /\ \A k \in 1..Len(exclude_patterns) :
                exclude_patterns[k] # BuildSlash =>
                  ~ should_exclude(p, <<exclude_patterns[k]>>) ) =>
           ~ should_exclude(p, exclude_patterns)

(***************************************************************************)
(* C5: the matcher is an OR over the patterns: it answers true exactly     *)
(* when one pattern on its own matches the path, and it answers the same   *)
(* for the reversed and for the rotated pattern list.                      *)
(***************************************************************************)
Reversed(seq) == [i \in 1..Len(seq) |-> seq[Len(seq) + 1 - i]]
Rotated(seq) == IF seq = <<>> THEN seq ELSE Append(Tail(seq), Head(seq))

C5_PureOr ==
  pc = "structure" =>
    \A p \in DOMAIN tree :
      /\ should_exclude(p, exclude_patterns)
           = (\E k \in 1..Len(exclude_patterns) :
                should_exclude(p, <<exclude_patterns[k]>>))
      /\ should_exclude(p, Reversed(exclude_patterns))
           = should_exclude(p, exclude_patterns)
      /\ should_exclude(p, Rotated(exclude_patterns))
           = should_exclude(p, exclude_patterns)

\* one entry is excluded by the last pattern only, another by none
C5_Witness ==
  /\ pc = "structure"
  /\ Len(exclude_patterns) > Len(standard_exclusions)
  /\ \E p \in Entries :
       /\ should_exclude(p, exclude_patterns)
       /\ ~ should_exclude(p, SubSeq(exclude_patterns, 1,
                                     Len(exclude_patterns) - 1))
  /\ \E p \in Entries : ~ should_exclude(p, exclude_patterns)

(***************************************************************************)
(* C6, as stated: a file pattern without a separator matches only entries  *)
(* directly inside the root, never a nested path.                          *)
(***************************************************************************)
IsBare(pattern) ==
  ~ EndsWith(pattern, <<Slash>>) /\ ~ InSeq(Slash, pattern)

IsLiteral(pattern) ==
  ~ InSeq("*", pattern) /\ ~ InSeq("?", pattern)

C6_BareNeverNested ==
  HasPatterns =>
    \A k \in 1..Len(exclude_patterns) :
      IsBare(exclude_patterns[k]) =>
        \A p \in DOMAIN tree :
          should_exclude(p, <<exclude_patterns[k]>>) => Len(p) <= 1

(***************************************************************************)
(* C6, amended: a file pattern without a separator and without a wildcard  *)
(* matches exactly the entry directly inside the root that bears its name, *)
(* never a nested path; *.log matches every path that ends in .log, nested *)
(* ones included.                                                          *)
(***************************************************************************)
C6_LiteralBareRootOnly ==
  HasPatterns =>
    /\ \A k \in 1..Len(exclude_patterns) :
         (IsBare(exclude_patterns[k]) /\ IsLiteral(exclude_patterns[k])) =>
           \A p \in Entries :
             should_exclude(p, <<exclude_patterns[k]>>)
               = (p = <<exclude_patterns[k]>>)
    /\ InSeq(StarLog, exclude_patterns) =>
         \A p \in Entries :
           EndsWith(Name(p), <<".", "l", "o", "g">>) =>
             should_exclude(p, exclude_patterns)

\* a literal bare pattern names a nested entry and does not match it, and
\* matches the root entry of its name; a nested .log file is matched
C6_Witness ==
  /\ HasPatterns
  /\ InSeq(DSStore, exclude_patterns)
  /\ <<App, DSStore>> \in Entries
  /\ ~ should_exclude(<<App, DSStore>>, exclude_patterns)
  /\ InSeq(Out, exclude_patterns)
  /\ should_exclude(<<Out>>, <<Out>>)
  /\ ~ should_exclude(<<Out, GKt>>, <<Out>>)
  /\ should_exclude(<<App, XLog>>, exclude_patterns)

(***************************************************************************)
(* C7: no .kt file below a directory that the matcher excludes is in the   *)
(* source section, whatever kind of pattern excluded the directory.        *)
(***************************************************************************)
C7_ExcludedSubtreeSkipped ==
  Assembled =>
    \A d \in Dirs :
      should_exclude(d, exclude_patterns) =>
        \A p \in Files :
          (IsBelow(p, d) /\ EndsWith(Name(p), KtSuffix)) =>
            JoinSlash(p) \notin KotlinPaths

C9_DecodeErrorNeverAborts == exc # "UnicodeDecodeError"

(***************************************************************************)
(* C10: when generation has failed, the file at the output path is as it   *)
(* was before the first call or holds a complete document, and the GUI,    *)
(* having shown the error, accepts a further generate request.             *)
(***************************************************************************)
C10_NoPartialDocument ==
  /\ (entry = "generate_markdown_with_excludes" /\ exc # "none") =>
       \/ outFile.save \in {NoFile, OldDoc}
       \/ Len(outFile.save) = 5
  /\ (status = "error" /\ pc = "idle" /\ runs < MaxRuns) => ENABLED GuiGenerate

(***************************************************************************)
(* C11: two calls of generate_markdown_with_excludes in a row, made with   *)
(* the same directory, the same output path and the same user exclusion    *)
(* list while nothing else touches the files, write the same document,     *)
(* wherever the output path lies.                                          *)
(***************************************************************************)
C11_RerunIdentical ==
  ( /\ frontend = "gui"
    /\ Len(documents) = 2
    /\ documents[1].user_excluded_paths = documents[2].user_excluded_paths )
  => documents[1].content = documents[2].content

(***************************************************************************)
(* C12: node_path_map and node_checked_map always have the same keys;      *)
(* every item is checked right after populate_treeview; a double click on  *)
(* an item flips its checked state, sets every descendant of the item to   *)
(* the new state and leaves the state of every other item, and the keys of *)
(* both dicts, as they were.                                               *)
(***************************************************************************)
RECURSIVE Descendants(_)
Descendants(item_id) ==
  LET children == { treeview[item_id][i] : i \in 1..Len(treeview[item_id]) }
  IN  children \cup UNION { Descendants(child) : child \in children }

SameKeys == DOMAIN node_path_map = DOMAIN node_checked_map

ToggleEffect(item_id) ==
  LET subtree == {item_id} \cup Descendants(item_id)
  IN  /\ node_checked_map'[item_id] = ~ node_checked_map[item_id]
      /\ \A m \in subtree : node_checked_map'[m] = node_checked_map'[item_id]
      /\ \A m \in DOMAIN node_checked_map \ subtree :
           node_checked_map'[m] = node_checked_map[m]
      /\ DOMAIN node_checked_map' = DOMAIN node_checked_map
      /\ node_path_map' = node_path_map

C12_CheckboxTree ==
  /\ [] SameKeys
  /\ [][ /\ \A item_id \in Clickable :
              OnItemDoubleClick(item_id) => ToggleEffect(item_id)
         /\ BrowseDirectory =>
              \A m \in DOMAIN node_checked_map' : node_checked_map'[m] ]_vars

\* after two double clicks app/ and all that is below it, app/sub/F.kt
\* included, is unchecked, while the root item and out/ are checked
C12_Witness ==
  /\ clicks = 2
  /\ SameKeys
  /\ HasItem(<<App>>)
  /\ HasItem(<<Out>>)
  /\ ItemAt(<<App, Sub, FKt>>) \in Descendants(ItemAt(<<App>>))
  /\ \A m \in {ItemAt(<<App>>)} \cup Descendants(ItemAt(<<App>>)) :
       ~ node_checked_map[m]
  /\ node_checked_map[ItemAt(<<>>)]
  /\ node_checked_map[ItemAt(<<Out>>)]

============================================================================
